---- MODULE Spec2Model ----
(***************************************************************************)
(* A model of the static costmap layer of the navigation stack             *)
(* (costmap_2d/plugins/static_layer.cpp): the interpretation of occupancy  *)
(* values, the ingestion of whole maps and of windowed updates into the    *)
(* layer's private grid, the dirty rectangle reported by updateBounds and  *)
(* the stamping of the private grid onto the master grid by updateCosts.   *)
(*                                                                         *)
(* World coordinates are doubles in the source.  Every coordinate the      *)
(* model produces is a multiple of one half, so a world coordinate w is    *)
(* kept as the integer 2*w (names ending in 2).                            *)
(***************************************************************************)
EXTENDS Integers, Sequences, FiniteSets, TLC

\* ------------------------------------------------------------------------
\* Cost values (costmap_2d/cost_values.h, named by the using-declarations).
NO_INFORMATION == 255
LETHAL_OBSTACLE == 254
FREE_SPACE == 0

\* ------------------------------------------------------------------------
\* Bounds of the model.
MaxW == 2          \* largest width of a map or of an update, in cells
MaxH == 2          \* largest height of a map or of an update, in cells
MaxCells == 2      \* most cells of a grid that updateCosts is applied to
MaxConfigs == 2    \* number of distinct planner configurations requested
MaxPlan == 2       \* most poses of a local plan

\* Occupancy values a map message carries in the state-machine model (int8):
\* unknown and occupied.
SnapVals == {-1, 100}
\* Cell values an update message carries in the state-machine model.
PatchVals == {NO_INFORMATION, LETHAL_OBSTACLE}
\* Map resolutions (m/cell) and map origins (m) of the incoming maps.
Resolutions == {1}
Origins == {0, 1}

\* Cell values of the grids that updateCosts is applied to: free, a scaled
\* cost, lethal, unknown.
CostVals == {FREE_SPACE, 127, LETHAL_OBSTACLE, NO_INFORMATION}
\* Origins (m) of the rolling window of the master grid, against a private
\* grid at the origin.
WindowOrigins == {<<0, 0>>, <<-1, 0>>, <<1, 0>>, <<0, 1>>}

\* What a cycle of the planner reads: the yaw error to the first pose of
\* the plan (around both switches of every configuration, with both
\* signs), the distances to the first and to the last pose, the yaws of
\* the poses of the plan, and the best trajectory of the sampler (illegal,
\* or legal with a velocity or at rest).
YawErrors == {-11, 4, 6, 8, 9, 10, 11, 12, 19, 21}
PlanDistances == {0, 7}
GoalDistances == 3 .. 5
PlanYaws == {30, 60}
Trajectories ==
    {[cost_ |-> -1, xv_ |-> 1, yv_ |-> 2, thetav_ |-> 3],
     [cost_ |-> 0, xv_ |-> 1, yv_ |-> 2, thetav_ |-> 3],
     [cost_ |-> 5, xv_ |-> 0, yv_ |-> 0, thetav_ |-> 0]}

\* Parameter values the interpretation is checked under: every threshold
\* the clamp of onInitialize can produce (and one on each side of it), and
\* unknown_cost_value as a signed octet.
LethalParams == -1 .. 101
UnknownParams == {-128, -1, 0, 30, 127}
SignedOctets == -128 .. 127

VARIABLES
    params,                 \* the ROS parameters read by onInitialize
    rolling,                \* layered_costmap_->isRolling()
    track_unknown_space_, use_maximum_, trinary_costmap_,
    lethal_threshold_, unknown_cost_value_,
    enabled_, map_received_, has_updated_data_,
    x_, y_, width_, height_,                     \* the dirty rectangle
    size_x_, size_y_, resolution_, origin_x_, origin_y_, costmap_,
    master,                 \* layered_costmap_->getCostmap()
    size_locked,            \* layered_costmap_->isSizeLocked()
    extra,                  \* has_extra_bounds_ and the extra bounds
    init_pc,                \* where onInitialize is: "wait", "done",
                            \* "shutdown" (returned as the node went down)
                            \* or "rewait" (waiting again, called by reset)
    ingest,                 \* incomingMap in progress: its locals
    history_on,             \* whether the history variable changed is kept
    changed,                \* history: cells changed since the last report
    last                    \* history: the last operation, its input, its result

\* The local planner (dwa_local_planner).
VARIABLES
    initialized_, setup_, default_config_,       \* DWAPlannerROS
    limits,                 \* planner_util_: the LocalPlannerLimits in force
    reconf,                 \* reconfigureCB in progress: its configuration
    dp,                     \* the members of DWAPlanner set by reconfigure
    prev_state,             \* the static prev_state of determineState
    critics,                \* the settings of the five cost functions
    cmd_vel,                \* the caller's Twist
    cycle                   \* computeVelocityCommands in progress: its locals

config == <<params, rolling, track_unknown_space_, use_maximum_,
            trinary_costmap_, lethal_threshold_, unknown_cost_value_>>
layer == <<enabled_, map_received_, has_updated_data_, x_, y_, width_,
           height_, size_x_, size_y_, resolution_, origin_x_, origin_y_,
           costmap_, extra, init_pc, ingest>>
planner == <<initialized_, setup_, default_config_, limits, reconf, dp,
             prev_state, critics, cmd_vel, cycle>>
vars == <<config, layer, master, size_locked, history_on, changed, last,
          planner>>

\* ------------------------------------------------------------------------
\* Conversions and small helpers.

\* The conversion of an int (or int8) to unsigned char.
U8(v) == v % 256

Min(a, b) == IF a <= b THEN a ELSE b
Max(a, b) == IF a >= b THEN a ELSE b

\* onInitialize, line 78: the threshold parameter clamped to 0..100.
ClampThreshold(temp) == Max(Min(temp, 100), 0)

\* ------------------------------------------------------------------------
\* Variants of interpretValue with one plausible slip each, used to see
\* that the properties below depend on the code.

\* unknown_cost_value_ kept as the signed parameter, not as an unsigned char.
interpretValue_SignedUnknown(value) ==
    IF track_unknown_space_ /\ value = params.unknown_cost_value
      THEN NO_INFORMATION
    ELSE IF ~track_unknown_space_ /\ value = params.unknown_cost_value
      THEN FREE_SPACE
    ELSE IF value >= lethal_threshold_
      THEN LETHAL_OBSTACLE
    ELSE IF trinary_costmap_
      THEN FREE_SPACE
    ELSE (value * LETHAL_OBSTACLE) \div lethal_threshold_

\* The threshold compared with > instead of >=.
interpretValue_StrictThreshold(value) ==
    IF track_unknown_space_ /\ value = unknown_cost_value_
      THEN NO_INFORMATION
    ELSE IF ~track_unknown_space_ /\ value = unknown_cost_value_
      THEN FREE_SPACE
    ELSE IF value > lethal_threshold_
      THEN LETHAL_OBSTACLE
    ELSE IF trinary_costmap_
      THEN FREE_SPACE
    ELSE Min((value * LETHAL_OBSTACLE) \div Max(lethal_threshold_, 1),
             LETHAL_OBSTACLE - 1)

\* The scaled cost rounded to the nearest integer instead of truncated.
interpretValue_Rounded(value) ==
    IF track_unknown_space_ /\ value = unknown_cost_value_
      THEN NO_INFORMATION
    ELSE IF ~track_unknown_space_ /\ value = unknown_cost_value_
      THEN FREE_SPACE
    ELSE IF value >= lethal_threshold_
      THEN LETHAL_OBSTACLE
    ELSE IF trinary_costmap_
      THEN FREE_SPACE
    ELSE Min((2 * value * LETHAL_OBSTACLE + lethal_threshold_)
                 \div (2 * lethal_threshold_), LETHAL_OBSTACLE - 1)

\* The product value * 254 computed in eight bits before the division.
interpretValue_Overflow(value) ==
    IF track_unknown_space_ /\ value = unknown_cost_value_
      THEN NO_INFORMATION
    ELSE IF ~track_unknown_space_ /\ value = unknown_cost_value_
      THEN FREE_SPACE
    ELSE IF value >= lethal_threshold_
      THEN LETHAL_OBSTACLE
    ELSE IF trinary_costmap_
      THEN FREE_SPACE
    ELSE ((value * LETHAL_OBSTACLE) % 256) \div lethal_threshold_

\* ------------------------------------------------------------------------
\* StaticLayer::interpretValue.  value is an unsigned char, as are the two
\* members it is compared with.  In the last branch the source computes
\* (double) value / lethal_threshold_ * 254 and converts the double to
\* unsigned char, which truncates; for every threshold 1..100 and every
\* value below it the double product truncates to the integer quotient
\* below (the two agree on all 5050 pairs).
interpretValue(value) ==
    IF track_unknown_space_ /\ value = unknown_cost_value_
      THEN NO_INFORMATION
    ELSE IF ~track_unknown_space_ /\ value = unknown_cost_value_
      THEN FREE_SPACE
    ELSE IF value >= lethal_threshold_
      THEN LETHAL_OBSTACLE
    ELSE IF trinary_costmap_
      THEN FREE_SPACE
    ELSE (value * LETHAL_OBSTACLE) \div lethal_threshold_

\* ------------------------------------------------------------------------
\* Costmap2D (costmap_2d/costmap_2d.h): a grid is a record of its shape and
\* its cell buffer, a function on 0 .. size_x*size_y - 1, row-major.

getIndex(size_x, mx, my) == my * size_x + mx

NewGrid(size_x, size_y, value) == [k \in 0 .. (size_x * size_y - 1) |-> value]

\* Costmap2D::mapToWorld, doubled: origin + (m + 0.5) * resolution.
mapToWorld2(origin, resolution, m) == 2 * origin + (2 * m + 1) * resolution

\* The default value of the master grid (LayeredCostmap's constructor, with
\* Costmap2DROS's default track_unknown_space = false).
MasterDefault == FREE_SPACE

NewMaster(size_x, size_y, resolution, origin_x, origin_y) ==
    [size_x |-> size_x, size_y |-> size_y, resolution |-> resolution,
     origin_x |-> origin_x, origin_y |-> origin_y,
     costmap |-> NewGrid(size_x, size_y, MasterDefault)]

\* The cells (col, row) of a grid of the given shape.
CellsOf(size_x, size_y) == (0 .. (size_x - 1)) \X (0 .. (size_y - 1))

\* The value of the private grid at (col, row).
getCost(mx, my) == costmap_[getIndex(size_x_, mx, my)]

\* CostmapLayer's extra bounds when none are pending (1e6 and -1e6 in the
\* source; any value beyond the model's coordinates behaves alike).
Far2 == 1000
NoExtra == [has_extra_bounds_ |-> FALSE, min_x2 |-> Far2, min_y2 |-> Far2,
            max_x2 |-> -Far2, max_y2 |-> -Far2]

\* ------------------------------------------------------------------------
\* The state after the constructor and the first lines of onInitialize
\* (lines 62-84): parameters read, no map yet, waiting for the first map.

\* No call of incomingMap is under way.
NoIngestion == [pc |-> "idle"]

InitLayer ==
    /\ enabled_ = FALSE
    /\ map_received_ = FALSE
    /\ has_updated_data_ = FALSE
    /\ x_ = 0 /\ y_ = 0 /\ width_ = 0 /\ height_ = 0
    /\ size_x_ = 0 /\ size_y_ = 0 /\ resolution_ = 0
    /\ origin_x_ = 0 /\ origin_y_ = 0
    /\ costmap_ = NewGrid(0, 0, FREE_SPACE)
    /\ master = IF rolling THEN NewMaster(MaxW, MaxH, 1, 0, 0)
                           ELSE NewMaster(0, 0, 0, 0, 0)
    /\ size_locked = FALSE
    /\ extra = NoExtra
    /\ init_pc = "wait"
    /\ ingest = NoIngestion
    /\ changed = {}
    /\ last = [op |-> "none"]

\* onInitialize, lines 67-79: the members set from the parameters.
InitConfig(lethals, unknowns, rollings, maxima, trinaries, trackings) ==
    /\ params \in [lethal_cost_threshold : lethals,
                   unknown_cost_value : unknowns]
    /\ rolling \in rollings
    /\ use_maximum_ \in maxima
    /\ track_unknown_space_ \in trackings
    /\ trinary_costmap_ \in trinaries
    /\ lethal_threshold_ = ClampThreshold(params.lethal_cost_threshold)
    /\ unknown_cost_value_ = U8(params.unknown_cost_value)

\* ------------------------------------------------------------------------
\* StaticLayer::incomingMap.

\* Lines 148-163 without the else-if: the private grid is never resized on
\* its own.
ResizeBranch_NoPrivateResize(new_map) ==
    IF ~rolling /\ (\/ master.size_x # new_map.width
                    \/ master.size_y # new_map.height
                    \/ master.resolution # new_map.resolution
                    \/ master.origin_x # new_map.origin_x
                    \/ master.origin_y # new_map.origin_y
                    \/ ~size_locked)
      THEN "master"
    ELSE "none"

\* Lines 148-163 comparing the sizes only, not the resolution and the
\* origin.
ResizeBranch_SizeOnly(new_map) ==
    IF ~rolling /\ (\/ master.size_x # new_map.width
                    \/ master.size_y # new_map.height
                    \/ ~size_locked)
      THEN "master"
    ELSE IF \/ size_x_ # new_map.width
            \/ size_y_ # new_map.height
      THEN "private"
    ELSE "none"

\* Lines 148-163: which grid the map resizes.
ResizeBranch(new_map) ==
    IF ~rolling /\ (\/ master.size_x # new_map.width
                    \/ master.size_y # new_map.height
                    \/ master.resolution # new_map.resolution
                    \/ master.origin_x # new_map.origin_x
                    \/ master.origin_y # new_map.origin_y
                    \/ ~size_locked)
      THEN "master"
    ELSE IF \/ size_x_ # new_map.width
            \/ size_y_ # new_map.height
            \/ resolution_ # new_map.resolution
            \/ origin_x_ # new_map.origin_x
            \/ origin_y_ # new_map.origin_y
      THEN "private"
    ELSE "none"

\* The shape of the private grid after lines 148-163.  resizeMap of the
\* layered costmap makes every layer match the master (CostmapLayer::
\* matchSize); Costmap2D::resizeMap resets the cells to the default value.
ShapeOf(size_x, size_y, resolution, origin_x, origin_y) ==
    [size_x |-> size_x, size_y |-> size_y, resolution |-> resolution,
     origin_x |-> origin_x, origin_y |-> origin_y]

ShapeAfterResize(new_map) ==
    IF ResizeBranch(new_map) = "none"
      THEN ShapeOf(size_x_, size_y_, resolution_, origin_x_, origin_y_)
      ELSE ShapeOf(new_map.width, new_map.height, new_map.resolution,
                   new_map.origin_x, new_map.origin_y)

\* The default value of the private grid (Costmap2D's constructor).
PrivateDefault == FREE_SPACE

\* What the loop of lines 168-176 can read from new_map.data: data[index]
\* where the vector has it, and any value where index is past its end (the
\* read is outside the vector: undefined behaviour).
Reads(new_map) ==
    {read \in [1 .. (new_map.width * new_map.height) -> SnapVals] :
        \A k \in 1 .. Min(Len(new_map.data), new_map.width * new_map.height) :
            read[k] = new_map.data[k]}

\* Lines 165-176: for i < height, j < width in that order, setCost(j, i,
\* interpretValue(data[index])), index counting the iterations.  setCost
\* writes the private buffer at getIndex(j, i), with the private width.
\* base is the buffer before the loop, read the sequence of values read.
MapLoop(new_map, base, size_x, read) ==
    [k \in DOMAIN base |->
        LET hits == {index \in 0 .. (new_map.width * new_map.height - 1) :
                       getIndex(size_x, index % new_map.width,
                                index \div new_map.width) = k}
        IN  IF hits = {} THEN base[k]
            ELSE LET index == CHOOSE n \in hits : \A m \in hits : m <= n
                 IN  interpretValue(U8(read[index + 1]))]

\* The cells of the new grid that did not exist or hold another value.
ChangedByMap(shape, grid) ==
    {c \in CellsOf(shape.size_x, shape.size_y) :
        \/ c \notin CellsOf(size_x_, size_y_)
        \/ getCost(c[1], c[2]) # grid[getIndex(shape.size_x, c[1], c[2])]}

incomingMap(new_map, read) ==
    LET branch == ResizeBranch(new_map)
        shape == ShapeAfterResize(new_map)
        base == IF branch = "none" THEN costmap_
                ELSE NewGrid(shape.size_x, shape.size_y, PrivateDefault)
        grid == MapLoop(new_map, base, shape.size_x, read)
    IN  /\ init_pc = "wait" => ~map_received_
        /\ init_pc # "shutdown"
        /\ IF branch = "master"
             THEN /\ master' = NewMaster(new_map.width, new_map.height,
                                         new_map.resolution, new_map.origin_x,
                                         new_map.origin_y)
                  /\ size_locked' = TRUE
             ELSE UNCHANGED <<master, size_locked>>
        /\ size_x_' = shape.size_x
        /\ size_y_' = shape.size_y
        /\ resolution_' = shape.resolution
        /\ origin_x_' = shape.origin_x
        /\ origin_y_' = shape.origin_y
        /\ costmap_' = grid
        /\ x_' = 0 /\ y_' = 0
        /\ width_' = size_x_'
        /\ height_' = size_y_'
        /\ map_received_' = TRUE
        /\ has_updated_data_' = TRUE
        /\ changed' = IF history_on
                         THEN (changed \cap CellsOf(shape.size_x, shape.size_y))
                                  \cup ChangedByMap(shape, grid)
                         ELSE changed
        /\ last' = [op |-> "incomingMap", map |-> new_map, branch |-> branch]
        /\ UNCHANGED <<config, planner, ingest, enabled_, extra, init_pc, history_on>>

\* The heights of the maps and of the updates.  Where the history of
\* changed cells is kept, the messages have a single row.
Heights == IF history_on THEN {1} ELSE 1 .. MaxH

\* The geometries of the map messages: every size up to MaxW x MaxH at the
\* first origin, and the largest size at the other origins as well.
Geometries ==
    {g \in [width : 1 .. MaxW, height : Heights, resolution : Resolutions,
            origin_x : Origins, origin_y : {0}] :
        g.origin_x = 0 \/ (g.width = MaxW /\ g.height = MaxH)}

\* The data vectors of a map message of n cells: every well-formed one (of
\* length n), and malformed ones, one value repeated n - 1 or n + 1 times.
DataVectors(n) ==
    [1 .. n -> SnapVals]
        \cup {[k \in 1 .. len |-> v] : len \in {n - 1, n + 1}, v \in SnapVals}

IncomingMap ==
    \E g \in Geometries :
      \E data \in DataVectors(g.width * g.height) :
        LET new_map == [width |-> g.width, height |-> g.height,
                        resolution |-> g.resolution, origin_x |-> g.origin_x,
                        origin_y |-> g.origin_y, data |-> data]
        IN  \E read \in Reads(new_map) : incomingMap(new_map, read)

\* ------------------------------------------------------------------------
\* StaticLayer::incomingUpdate.

\* Line 192: the cell that iteration (x, y) of the loop writes.
WrittenCell(update, x, y) == <<x, y>>

\* Lines 186-194: for y < height, x < width in that order, setCost on the
\* written cell with data[di], di counting the iterations.  setCost writes
\* the buffer at getIndex of the cell; an index past the end of the buffer
\* is a write outside it, which leaves the buffer as it is.
UpdateLoop(update, base) ==
    [k \in DOMAIN base |->
        LET hits == {di \in 0 .. (update.width * update.height - 1) :
                       LET c == WrittenCell(update, di % update.width,
                                            di \div update.width)
                       IN  getIndex(size_x_, c[1], c[2]) = k}
        IN  IF hits = {} THEN base[k]
            ELSE LET di == CHOOSE n \in hits : \A m \in hits : m <= n
                 IN  update.data[di + 1]]

\* The cells of the grid that hold another value after the update.
ChangedByUpdate(grid) ==
    {c \in CellsOf(size_x_, size_y_) :
        grid[getIndex(size_x_, c[1], c[2])] # getCost(c[1], c[2])}

\* Lines 195-198 taken as a union with the rectangle that is pending.
PatchRectangle_Union(update) ==
    IF ~has_updated_data_
      THEN [x |-> update.x, y |-> update.y,
            width |-> update.width, height |-> update.height]
      ELSE [x |-> Min(x_, update.x), y |-> Min(y_, update.y),
            width |-> Max(x_ + width_, update.x + update.width)
                        - Min(x_, update.x),
            height |-> Max(y_ + height_, update.y + update.height)
                        - Min(y_, update.y)]

\* Lines 195-198: the dirty rectangle an update leaves.
PatchRectangle(update) ==
    [x |-> update.x, y |-> update.y,
     width |-> update.width, height |-> update.height]

incomingUpdate(update) ==
    LET grid == UpdateLoop(update, costmap_)
    IN  /\ init_pc = "done"
        /\ costmap_' = grid
        /\ x_' = PatchRectangle(update).x
        /\ y_' = PatchRectangle(update).y
        /\ width_' = PatchRectangle(update).width
        /\ height_' = PatchRectangle(update).height
        /\ has_updated_data_' = TRUE
        /\ changed' = IF history_on
                         THEN changed \cup ChangedByUpdate(grid)
                         ELSE changed
        /\ last' = [op |-> "incomingUpdate", update |-> update]
        /\ UNCHANGED <<config, planner, ingest, enabled_, map_received_, size_x_, size_y_,
                       resolution_, origin_x_, origin_y_, extra, init_pc,
                       master, size_locked, history_on>>

\* The update messages: a rectangle of cells, anywhere over the grid.
IncomingUpdate ==
    \E x \in 0 .. (MaxW - 1), y \in {h - 1 : h \in Heights},
       w \in 1 .. MaxW, h \in Heights :
      \E data \in [1 .. (w * h) -> PatchVals] :
        incomingUpdate([x |-> x, y |-> y, width |-> w, height |-> h,
                        data |-> data])

\* ------------------------------------------------------------------------
\* StaticLayer::reconfigureCB.
\* Lines 114-121 without line 117: the dirty flag is left alone.
reconfigureCB_KeepsFlag(config_enabled) ==
    IF config_enabled # enabled_
      THEN /\ enabled_' = config_enabled
           /\ x_' = 0 /\ y_' = 0
           /\ width_' = size_x_
           /\ height_' = size_y_
           /\ UNCHANGED has_updated_data_
      ELSE UNCHANGED <<enabled_, has_updated_data_, x_, y_, width_, height_>>

\* Lines 112-122.
reconfigureCB(config_enabled) ==
    IF config_enabled # enabled_
      THEN /\ enabled_' = config_enabled
           /\ has_updated_data_' = TRUE
           /\ x_' = 0 /\ y_' = 0
           /\ width_' = size_x_
           /\ height_' = size_y_
      ELSE UNCHANGED <<enabled_, has_updated_data_, x_, y_, width_, height_>>

ReconfigureCB ==
    \E config_enabled \in BOOLEAN :
        /\ init_pc = "done"
        /\ reconfigureCB(config_enabled)
        /\ last' = [op |-> "reconfigureCB", enabled |-> config_enabled]
        /\ UNCHANGED <<config, planner, ingest, map_received_, size_x_, size_y_, resolution_,
                       origin_x_, origin_y_, costmap_, extra, init_pc,
                       master, size_locked, history_on, changed>>

\* Line 88 with the loop left at once.
WaitEnds_AtOnce(ok) == TRUE

\* Line 88: the wait loop is left once a map was received or g_nh.ok()
\* is false.
WaitEnds(ok) == ~(~map_received_ /\ ok)

\* onInitialize, lines 86-109: the wait loop ends; the subscription to
\* the updates is made, and setCallback calls reconfigureCB with the
\* configured enabled flag.  Once the node is down (ok false) no message
\* and no call reaches the layer.
InitDone ==
    \E config_enabled \in BOOLEAN, ok \in BOOLEAN :
        /\ init_pc = "wait"
        /\ WaitEnds(ok)
        /\ init_pc' = IF ok THEN "done" ELSE "shutdown"
        /\ reconfigureCB(config_enabled)
        /\ last' = [op |-> "onInitialize", enabled |-> config_enabled,
                    ok |-> ok]
        /\ UNCHANGED <<config, planner, ingest, map_received_, size_x_, size_y_, resolution_,
                       origin_x_, origin_y_, costmap_, extra,
                       master, size_locked, history_on, changed>>

\* ------------------------------------------------------------------------
\* StaticLayer::updateBounds.  Bounds are records of doubled coordinates.

Box2(min_x2, min_y2, max_x2, max_y2) ==
    [min_x2 |-> min_x2, min_y2 |-> min_y2, max_x2 |-> max_x2, max_y2 |-> max_y2]

\* The bounds no layer has widened yet.
NoBounds == Box2(Far2, Far2, -Far2, -Far2)

\* CostmapLayer::useExtraBounds: the bounds widened by the pending extra
\* bounds, if any.
useExtraBounds(b) ==
    IF ~extra.has_extra_bounds_ THEN b
    ELSE Box2(Min(extra.min_x2, b.min_x2), Min(extra.min_y2, b.min_y2),
              Max(extra.max_x2, b.max_x2), Max(extra.max_y2, b.max_y2))

\* Lines 231-239: the bounds widened by the world corners of the dirty
\* rectangle.
DirtyBounds(b) ==
    Box2(Min(mapToWorld2(origin_x_, resolution_, x_), b.min_x2),
         Min(mapToWorld2(origin_y_, resolution_, y_), b.min_y2),
         Max(mapToWorld2(origin_x_, resolution_, x_ + width_), b.max_x2),
         Max(mapToWorld2(origin_y_, resolution_, y_ + height_), b.max_y2))

\* Lines 223-227 without the test of enabled_.
BoundsSkipped_IgnoresEnabled ==
    ~map_received_ \/ ~(has_updated_data_ \/ extra.has_extra_bounds_)

\* Lines 223-227: whether updateBounds returns at once.
BoundsSkipped ==
    ~enabled_ \/ ~map_received_ \/ ~(has_updated_data_ \/ extra.has_extra_bounds_)

updateBounds(b) ==
    /\ init_pc \in {"done", "rewait"}
    /\ IF BoundsSkipped
         THEN /\ last' = [op |-> "updateBounds", applied |-> FALSE,
                          in |-> b, out |-> b]
              /\ UNCHANGED <<has_updated_data_, extra, changed>>
         ELSE /\ last' = [op |-> "updateBounds", applied |-> TRUE,
                          in |-> b, out |-> DirtyBounds(useExtraBounds(b))]
              /\ extra' = NoExtra
              /\ has_updated_data_' = FALSE
              /\ changed' = {}
    /\ UNCHANGED <<config, planner, ingest, enabled_, map_received_, x_, y_, width_, height_,
                   size_x_, size_y_, resolution_, origin_x_, origin_y_,
                   costmap_, init_pc, master, size_locked, history_on>>

\* The bounds handed in: none yet (LayeredCostmap::updateMap starts from
\* +-1e30), or the box an earlier layer left.
UpdateBounds ==
    \E b \in {NoBounds, Box2(1, 1, 3, 3)} :
        updateBounds(b)

\* ------------------------------------------------------------------------
\* The local planner: DWAPlannerROS (dwa_planner_ros.cpp) and DWAPlanner
\* (dwa_planner.cpp).  Distances, angles, velocities and scales are doubles
\* in the source; the model keeps them as integers in a fixed unit.

\* LocalPlannerState (dwa_planner.h line 70), as far as determineState
\* uses it.
States == {"Align", "Default", "Arrive"}
\* The cost functions that take a scale from the configuration: alignment,
\* plan, goal, cmd_vel, obstacle (align_align_scale_ .. arrive_occ_scale_).
Critics == {"align", "plan", "goal", "cmd", "occ"}
\* The coefficients of the cmd_vel cost function (align_cmd_px_ ..).
Coefficients == {"px", "nx", "py", "ny", "pth", "nth"}

StateNumber(st) == CASE st = "Align" -> 1 [] st = "Default" -> 2 [] st = "Arrive" -> 3
CriticNumber(c) ==
    CASE c = "align" -> 1 [] c = "plan" -> 2 [] c = "goal" -> 3
      [] c = "cmd" -> 4 [] c = "occ" -> 5
CoefficientNumber(c) ==
    CASE c = "px" -> 1 [] c = "nx" -> 2 [] c = "py" -> 3
      [] c = "ny" -> 4 [] c = "pth" -> 5 [] c = "nth" -> 6

\* The k-th configuration requested (DWAPlannerConfig): its switches, and
\* scales and coefficients that differ in every entry and from those of
\* every other configuration.
ConfigOf(k, restore_defaults) ==
    [restore_defaults |-> restore_defaults,
     switch_yaw_error |-> 10 * k,
     switch_goal_distance |-> 6 - k,
     switch_plan_distance |-> k,
     vx_samples |-> 2 + k,
     max_trans_vel |-> 50 * k,
     xy_goal_tolerance |-> k,
     yaw_goal_tolerance |-> 5 * k,
     trans_stopped_vel |-> k,
     rot_stopped_vel |-> k,
     scale |-> [st \in States |-> [c \in Critics |->
                  1000 * k + 100 * StateNumber(st) + CriticNumber(c)]],
     cmd |-> [st \in States |-> [c \in Coefficients |->
                  1000 * k + 100 * StateNumber(st) + 10 * CoefficientNumber(c)]]]

Configs == {ConfigOf(k, r) : k \in 1 .. MaxConfigs, r \in BOOLEAN}

\* The settings of the cost functions before the first cycle
\* (base_local_planner: a scale of 1, no coefficients, no orientation).
InitCritics ==
    [scale |-> [c \in Critics |-> 1],
     coefficients |-> [c \in Coefficients |-> 0],
     desired_orientation |-> 0]

\* No cycle in progress.
Idle == [pc |-> "idle"]

\* No reconfigure request in progress.
NoRequest == [pc |-> "idle"]

\* The state after the constructor DWAPlannerROS::DWAPlannerROS (lines
\* 129-135); prev_state is None (dwa_planner.cpp line 184).
InitPlanner ==
    /\ initialized_ = FALSE
    /\ setup_ = FALSE
    /\ default_config_ = "none"
    /\ limits = "none"
    /\ reconf = NoRequest
    /\ dp = "none"
    /\ prev_state = "None"
    /\ critics = InitCritics
    /\ cmd_vel = [x |-> 0, y |-> 0, z |-> 0]
    /\ cycle = Idle

\* DWAPlanner::reconfigure, lines 62, 78-80, 88-104 and 125-144: the
\* members that parametrise the sampling, select the state and hold the
\* weight table.
DWAPlanner_reconfigure(cfg) ==
    [vsamples_ |-> cfg.vx_samples,
     switch_yaw_error_ |-> cfg.switch_yaw_error,
     switch_goal_distance_ |-> cfg.switch_goal_distance,
     switch_plan_distance_ |-> cfg.switch_plan_distance,
     scale |-> cfg.scale,
     cmd |-> cfg.cmd]

\* Lines 89-93 left out: the request is applied as it is.
AppliedConfig_IgnoresRestore(cfg) == cfg

\* DWAPlannerROS::reconfigureCB, lines 88-127: the configuration applied is
\* the stored default when defaults are restored after the first call; the
\* first call stores its configuration as the default.
AppliedConfig(cfg) ==
    IF setup_ /\ cfg.restore_defaults
      THEN [default_config_ EXCEPT !.restore_defaults = FALSE]
      ELSE cfg

\* Lines 101-121: the limits handed to planner_util_.
LimitsOf(cfg) ==
    [max_trans_vel |-> cfg.max_trans_vel,
     xy_goal_tolerance |-> cfg.xy_goal_tolerance,
     yaw_goal_tolerance |-> cfg.yaw_goal_tolerance,
     trans_stopped_vel |-> cfg.trans_stopped_vel,
     rot_stopped_vel |-> cfg.rot_stopped_vel]

\* Lines 89-123: the default stored by the first call, and the limits
\* replaced in planner_util_ (LocalPlannerUtil::reconfigureCB).
reconfigureLimits(cfg) ==
    /\ default_config_' = IF ~setup_ THEN AppliedConfig(cfg)
                                     ELSE default_config_
    /\ setup_' = TRUE
    /\ limits' = LimitsOf(AppliedConfig(cfg))
    /\ last' = [op |-> "reconfigureCB", request |-> cfg,
                applied |-> AppliedConfig(cfg)]

\* The whole of reconfigureCB, lines 88-127.
DWAPlannerROS_reconfigureCB(cfg) ==
    /\ reconf = NoRequest
    /\ reconfigureLimits(cfg)
    /\ dp' = DWAPlanner_reconfigure(AppliedConfig(cfg))
    /\ UNCHANGED reconf

\* DWAPlannerROS::initialize, lines 178-204; setCallback (line 203) calls
\* reconfigureCB with the configuration of the parameter server.
initialize(cfg) ==
    /\ ~initialized_
    /\ initialized_' = TRUE
    /\ DWAPlannerROS_reconfigureCB(cfg)
    /\ UNCHANGED <<prev_state, critics, cmd_vel, cycle>>
    /\ UNCHANGED <<config, layer, master, size_locked, history_on, changed>>

Initialize == \E c \in Configs : initialize(c)

\* A reconfigure request, served in the thread of the dynamic_reconfigure
\* server.  DWAPlanner::reconfigure waits for configuration_mutex_ (line
\* 59), which findBestPath holds (line 275) and updatePlanAndLocalCosts
\* does not take.
PlannerReconfigure ==
    /\ initialized_
    /\ \E c \in Configs : DWAPlannerROS_reconfigureCB(c)
    /\ UNCHANGED <<initialized_, prev_state, critics, cmd_vel, cycle>>
    /\ UNCHANGED <<config, layer, master, size_locked, history_on, changed>>

\* The same request followed call by call.  reconfigureCB first replaces
\* the limits in planner_util_ (line 123, under the mutex of
\* LocalPlannerUtil) ...
ReconfigureLimits ==
    /\ initialized_
    /\ reconf = NoRequest
    /\ \E c \in Configs :
         /\ reconfigureLimits(c)
         /\ reconf' = [pc |-> "reconfigure", config |-> AppliedConfig(c)]
    /\ UNCHANGED <<initialized_, dp, prev_state, critics, cmd_vel, cycle>>
    /\ UNCHANGED <<config, layer, master, size_locked, history_on, changed>>

\* ... and then calls DWAPlanner::reconfigure (line 126), which takes
\* configuration_mutex_ for itself.
ReconfigureWeights ==
    /\ reconf.pc = "reconfigure"
    /\ dp' = DWAPlanner_reconfigure(reconf.config)
    /\ reconf' = NoRequest
    /\ last' = [op |-> "reconfigure", applied |-> reconf.config]
    /\ UNCHANGED <<initialized_, setup_, default_config_, limits, prev_state,
                   critics, cmd_vel, cycle>>
    /\ UNCHANGED <<config, layer, master, size_locked, history_on, changed>>

Abs(v) == IF v < 0 THEN -v ELSE v

\* determineState without the memory of Align.
determineState_NoHysteresis(yaw_error, plan_distance, goal_distance) ==
    IF goal_distance < dp.switch_goal_distance_ THEN "Arrive"
    ELSE IF Abs(yaw_error) > dp.switch_yaw_error_ THEN "Align"
    ELSE "Default"

\* determineState leaving Align at a quarter of the switch only.
determineState_QuarterHysteresis(yaw_error, plan_distance, goal_distance) ==
    IF goal_distance < dp.switch_goal_distance_ THEN "Arrive"
    ELSE IF \/ Abs(yaw_error) > dp.switch_yaw_error_
            \/ (prev_state = "Align"
                  /\ 4 * Abs(yaw_error) > dp.switch_yaw_error_)
      THEN "Align"
    ELSE "Default"

\* determineState with the optional state of its todo: far from the plan,
\* align.
determineState_PlanSwitch(yaw_error, plan_distance, goal_distance) ==
    IF goal_distance < dp.switch_goal_distance_ THEN "Arrive"
    ELSE IF \/ Abs(yaw_error) > dp.switch_yaw_error_
            \/ (prev_state = "Align"
                  /\ 2 * Abs(yaw_error) > dp.switch_yaw_error_)
            \/ plan_distance > dp.switch_plan_distance_
      THEN "Align"
    ELSE "Default"

\* DWAPlanner::determineState, lines 182-205 (plan_distance is not read).
determineState(yaw_error, plan_distance, goal_distance) ==
    IF goal_distance < dp.switch_goal_distance_ THEN "Arrive"
    ELSE IF \/ Abs(yaw_error) > dp.switch_yaw_error_
            \/ (prev_state = "Align"
                  /\ 2 * Abs(yaw_error) > dp.switch_yaw_error_)
      THEN "Align"
    ELSE "Default"

\* The weights with the first pose's yaw as the desired orientation in
\* every state.
ApplyWeights_FrontYaw(state, local_plan) ==
    [scale |-> [c \in Critics |->
                  IF c = "cmd" THEN critics.scale[c] ELSE dp.scale[state][c]],
     coefficients |-> dp.cmd[state],
     desired_orientation |-> local_plan[1]]

\* DWAPlanner::updatePlanAndLocalCosts, lines 218-258: the settings of the
\* cost functions for the state.  No line sets the scale of cmd_vel_costs_.
ApplyWeights(state, local_plan) ==
    [scale |-> [c \in Critics |->
                  IF c = "cmd" THEN critics.scale[c] ELSE dp.scale[state][c]],
     coefficients |-> dp.cmd[state],
     desired_orientation |->
         IF state = "Arrive" THEN local_plan[Len(local_plan)]
                             ELSE local_plan[1]]

\* DWAPlannerROS::computeVelocityCommands, lines 241-251, with
\* getRobotStateAndLocalPlan (lines 161-176) and getRobotState (143-159).
\* The result of getRobotState is not read (line 163), so the local plan
\* is requested whether the pose was available or not.  After a usable
\* plan getRobotStateAndLocalPlan ends without a return statement (line
\* 176): what it returns is undefined, either value (returned).
\* Before initialize, getRobotState returns at line 148 without asking for
\* the pose, and the plan is requested all the same, of a planner_util_
\* that was never initialized; the call is followed where it comes back
\* with false (going on would call through the null dp_ of line 251).
computeVelocityCommands(pose_ok, plan_ok, local_plan, returned, yaw_error, plan_distance, goal_distance) ==
    /\ initialized_ \/ (~pose_ok /\ (~plan_ok \/ local_plan = << >> \/ ~returned))
    /\ cycle.pc = "idle"
    /\ IF ~plan_ok \/ local_plan = << >> \/ ~returned
         THEN /\ last' = [op |-> "computeVelocityCommands", returned |-> FALSE,
                          pose_ok |-> pose_ok, requested_plan |-> TRUE,
                          plan_ok |-> plan_ok, local_plan |-> local_plan,
                          published_plan |-> FALSE, sampled |-> FALSE,
                          published_trajectory |-> FALSE]
              /\ UNCHANGED <<prev_state, critics, cycle>>
         ELSE LET state == determineState(yaw_error, plan_distance,
                                          goal_distance)
              IN  /\ prev_state' = state
                  /\ critics' = ApplyWeights(state, local_plan)
                  /\ cycle' = [pc |-> "sample", pose_ok |-> pose_ok,
                               read |-> dp]
                  /\ last' = [op |-> "updatePlanAndLocalCosts",
                              pose_ok |-> pose_ok, requested_plan |-> TRUE,
                              plan_ok |-> plan_ok, local_plan |-> local_plan,
                              published_plan |-> TRUE, sampled |-> FALSE,
                              yaw_error |-> yaw_error,
                              plan_distance |-> plan_distance,
                              goal_distance |-> goal_distance,
                              prev |-> prev_state, state |-> state]
    /\ UNCHANGED <<initialized_, setup_, default_config_, limits, reconf, dp,
                   cmd_vel>>
    /\ UNCHANGED <<config, layer, master, size_locked, history_on, changed>>

\* The local plans: the yaws of up to MaxPlan poses.
Plans == UNION {[1 .. n -> PlanYaws] : n \in 0 .. MaxPlan}

\* A cycle starts: the pose is available or not, the local plan is
\* obtained or not.  The errors come from base_local_planner's goal
\* functions (lines 210-212) and are read only when the cycle goes on.
ComputeVelocityCommands ==
    \E pose_ok \in BOOLEAN :
      \/ computeVelocityCommands(pose_ok, FALSE, << >>, FALSE, 0, 0, 0)
      \/ \E local_plan \in Plans :
           \/ computeVelocityCommands(pose_ok, TRUE, local_plan, FALSE, 0, 0, 0)
           \/ /\ local_plan # << >>
              /\ \E yaw_error \in YawErrors, plan_distance \in PlanDistances,
                    goal_distance \in GoalDistances :
                   computeVelocityCommands(pose_ok, TRUE, local_plan, TRUE,
                                           yaw_error, plan_distance,
                                           goal_distance)

\* The command copied from the trajectory whatever its cost.
setCmdVel_Unconditional(traj) ==
    [x |-> traj.xv_, y |-> traj.yv_, z |-> traj.thetav_]

\* dwa_planner_ros.cpp lines 54-67.
setCmdVel(traj) ==
    IF traj.cost_ >= 0
      THEN [x |-> traj.xv_, y |-> traj.yv_, z |-> traj.thetav_]
      ELSE [x |-> 0, y |-> 0, z |-> 0]

\* DWAPlannerROS::computeVelocityCommands, lines 254-262: findBestPath
\* (under configuration_mutex_), setCmdVel, publishTrajectory, return.
findBestPath(traj) ==
    /\ cycle.pc = "sample"
    /\ cmd_vel' = setCmdVel(traj)
    /\ cycle' = Idle
    /\ last' = [op |-> "computeVelocityCommands",
                returned |-> (traj.cost_ >= 0),
                pose_ok |-> cycle.pose_ok, requested_plan |-> TRUE,
                published_plan |-> TRUE, sampled |-> TRUE,
                published_trajectory |-> TRUE, traj |-> traj,
                read |-> cycle.read, used |-> dp, limits |-> limits]
    /\ UNCHANGED <<initialized_, setup_, default_config_, limits, reconf, dp,
                   prev_state, critics>>
    /\ UNCHANGED <<config, layer, master, size_locked, history_on, changed>>

FindBestPath == \E traj \in Trajectories : findBestPath(traj)

\* DWAPlannerROS::setPlan, lines 206-216.  LocalPlannerUtil::setPlan keeps
\* the plan in planner_util_ and returns true; what the planner later
\* reads of it (the local plan, the goal) is an input of those calls.
setPlan(orig_global_plan) ==
    /\ last' = [op |-> "setPlan", plan |-> orig_global_plan,
                returned |-> initialized_, stored |-> initialized_]
    /\ UNCHANGED <<config, layer, master, size_locked, history_on, changed,
                   planner>>

SetPlan == \E orig_global_plan \in Plans : setPlan(orig_global_plan)

\* base_local_planner::stopped: the robot turns and moves no faster than
\* the two velocities.
stopped(robot_vel, rot_stopped_vel, trans_stopped_vel) ==
    /\ Abs(robot_vel.th) <= rot_stopped_vel
    /\ Abs(robot_vel.x) <= trans_stopped_vel
    /\ Abs(robot_vel.y) <= trans_stopped_vel

\* Lines 226-236: the test of isGoalReached under the limits l.
GoalTest(l, xy_to_goal, angle_to_goal, robot_vel) ==
    /\ xy_to_goal <= l.xy_goal_tolerance
    /\ Abs(angle_to_goal) <= l.yaw_goal_tolerance
    /\ stopped(robot_vel, l.rot_stopped_vel, l.trans_stopped_vel)

\* What getRobotState (lines 143-159) gives its caller: false before
\* initialize and without a pose; with a pose the function ends without a
\* return statement (line 159) and its value is undefined, either value
\* (returned).
getRobotState(pose_ok, returned) ==
    IF ~initialized_ THEN FALSE
    ELSE IF ~pose_ok THEN FALSE
    ELSE returned

\* DWAPlannerROS::isGoalReached, lines 218-237.
isGoalReached(pose_ok, returned, goal_ok, xy_to_goal, angle_to_goal, robot_vel) ==
    /\ last' = [op |-> "isGoalReached",
                pose_ok |-> pose_ok, goal_ok |-> goal_ok,
                xy_to_goal |-> xy_to_goal, angle_to_goal |-> angle_to_goal,
                robot_vel |-> robot_vel,
                read_limits |-> getRobotState(pose_ok, returned),
                returned |-> /\ getRobotState(pose_ok, returned)
                             /\ goal_ok
                             /\ GoalTest(limits, xy_to_goal, angle_to_goal,
                                         robot_vel)]
    /\ UNCHANGED <<config, layer, master, size_locked, history_on, changed,
                   planner>>

\* What isGoalReached reads: distances and angles to the goal on both
\* sides of the tolerances, a robot at rest, moving or turning.
XYToGoal == {1, 2, 3}
AnglesToGoal == {-6, 5}
RobotVels == {[x |-> 0, y |-> 0, th |-> 0], [x |-> 0, y |-> -2, th |-> 0],
              [x |-> 0, y |-> 0, th |-> 2]}

\* A call of isGoalReached: the pose is available or not (never before
\* initialize, when there is no costmap to ask), and so is the goal of
\* the plan held by planner_util_; a goal has a distance and an angle.
IsGoalReached ==
    \E pose_ok \in BOOLEAN, returned \in BOOLEAN, goal_ok \in BOOLEAN :
        /\ initialized_ \/ ~pose_ok
        /\ pose_ok \/ ~returned
        /\ IF goal_ok
             THEN \E xy_to_goal \in XYToGoal, angle_to_goal \in AnglesToGoal,
                     robot_vel \in RobotVels :
                    isGoalReached(pose_ok, returned, goal_ok, xy_to_goal,
                                  angle_to_goal, robot_vel)
             ELSE isGoalReached(pose_ok, returned, goal_ok, 0, 0,
                                [x |-> 0, y |-> 0, th |-> 0])

\* A cycle along one plan, with or without a pose.
CycleOnPlan ==
    \E pose_ok \in BOOLEAN, returned \in BOOLEAN :
        computeVelocityCommands(pose_ok, TRUE, <<30>>, returned, 4, 7, 5)

\* ------------------------------------------------------------------------
\* The static layer: its life from onInitialize on.

\* The parameters at their defaults (lines 70-76), on a rolling or a fixed
\* layered costmap.
Init ==
    /\ InitConfig({100}, {-1}, BOOLEAN, {FALSE}, {TRUE}, {TRUE})
    /\ InitLayer
    /\ history_on = FALSE
    /\ InitPlanner

Next ==
    \/ IncomingMap
    \/ InitDone
    \/ IncomingUpdate
    \/ ReconfigureCB
    \/ UpdateBounds

Spec == Init /\ [][Next]_vars

\* The same life with the history of changed cells kept.
InitDirty ==
    /\ InitConfig({100}, {-1}, BOOLEAN, {FALSE}, {TRUE}, {TRUE})
    /\ InitLayer
    /\ history_on = TRUE
    /\ InitPlanner

SpecDirty == InitDirty /\ [][Next]_vars

\* The wait loop of onInitialize polls at 10 Hz (lines 87-92): once it can
\* be left it is left.
SpecInitialize == InitDirty /\ [][Next]_vars /\ WF_vars(InitDone)

\* ------------------------------------------------------------------------
\* Properties of the ingestion.

\* The data vector of a map message has one value per cell.
WellFormed(new_map) == Len(new_map.data) = new_map.width * new_map.height

\* C1: after incomingMap, whatever came before, the private grid has the
\* shape of the map, every cell (col, row) holds the interpretation of
\* data[row * width + col] (where the vector has that element: always, in
\* a well-formed message), the dirty rectangle is (0, 0, size_x, size_y),
\* and map_received and the dirty flag are set.
C1_MapReplacesGrid ==
    last.op = "incomingMap" =>
        LET s == last.map
        IN  /\ size_x_ = s.width /\ size_y_ = s.height
            /\ DOMAIN costmap_ = 0 .. (s.width * s.height - 1)
            /\ \A c \in CellsOf(size_x_, size_y_) :
                 LET index == c[2] * s.width + c[1]
                 IN  index < Len(s.data) =>
                       getCost(c[1], c[2]) = interpretValue(U8(s.data[index + 1]))
            /\ x_ = 0 /\ y_ = 0 /\ width_ = size_x_ /\ height_ = size_y_
            /\ map_received_ /\ has_updated_data_

\* A well-formed 2 x 2 map, received after initialization on a rolling
\* costmap, that resized the private grid alone.
C1_Witness ==
    /\ last.op = "incomingMap"
    /\ init_pc = "done"
    /\ last.branch = "private"
    /\ last.map.width = 2 /\ last.map.height = 2
    /\ last.map.data = <<-1, 100, 100, 100>>
    /\ getCost(0, 0) = NO_INFORMATION
    /\ getCost(1, 0) = LETHAL_OBSTACLE

\* C2 as stated: after incomingUpdate(p), every cell (p.x + dx, p.y + dy)
\* of the grid with dx < p.width and dy < p.height holds
\* p.data[dy * p.width + dx], and every other cell is unchanged.
C2_UpdateWritesItsRectangle ==
    [][last'.op = "incomingUpdate" =>
        LET p == last'.update
        IN  \A c \in CellsOf(size_x_, size_y_) :
              LET dx == c[1] - p.x
                  dy == c[2] - p.y
              IN  IF dx \in 0 .. (p.width - 1) /\ dy \in 0 .. (p.height - 1)
                    THEN getCost(c[1], c[2])' = p.data[dy * p.width + dx + 1]
                    ELSE getCost(c[1], c[2])' = getCost(c[1], c[2])]_vars

\* The centre of cell c lies in the world rectangle that updateBounds adds
\* for the dirty rectangle (lines 233-239).
InReportedRectangle(c) ==
    /\ mapToWorld2(origin_x_, resolution_, x_)
          <= mapToWorld2(origin_x_, resolution_, c[1])
    /\ mapToWorld2(origin_x_, resolution_, c[1])
          <= mapToWorld2(origin_x_, resolution_, x_ + width_)
    /\ mapToWorld2(origin_y_, resolution_, y_)
          <= mapToWorld2(origin_y_, resolution_, c[2])
    /\ mapToWorld2(origin_y_, resolution_, c[2])
          <= mapToWorld2(origin_y_, resolution_, y_ + height_)

\* C3 as stated: every cell whose value was changed by a map or an update
\* since the last updateBounds that reported lies inside the rectangle
\* the next reporting updateBounds adds to the bounds.
C3_ReportCoversEveryChange ==
    [][(last'.op = "updateBounds" /\ last'.applied) =>
          \A c \in changed : InReportedRectangle(c)]_vars

\* C10 as stated: a map message whose data vector has not width * height
\* elements leaves the private grid and its shape, the dirty rectangle
\* and flag, map_received and the master grid as they were.
C10_MalformedMapRejected ==
    [][(last'.op = "incomingMap" /\ ~WellFormed(last'.map)) =>
          UNCHANGED <<costmap_, size_x_, size_y_, resolution_, origin_x_,
                      origin_y_, x_, y_, width_, height_, has_updated_data_,
                      map_received_, master>>]_vars

\* The shape of a map message, of the private grid and of the master grid.
MapShape(new_map) ==
    ShapeOf(new_map.width, new_map.height, new_map.resolution,
            new_map.origin_x, new_map.origin_y)

PrivateShape == ShapeOf(size_x_, size_y_, resolution_, origin_x_, origin_y_)

MasterShape ==
    ShapeOf(master.size_x, master.size_y, master.resolution,
            master.origin_x, master.origin_y)

\* C13: incomingMap(s) resizes the master grid to s if the layered costmap
\* is not rolling and the master's shape differs from s; otherwise it
\* leaves the master grid alone and resizes the private grid only, if its
\* shape differs from s.  So after every map the private grid has the
\* shape of that map and, when not rolling, of the master grid, and no
\* other operation changes either shape.
C13_ResizePolicy ==
    [][/\ last'.op = "incomingMap" =>
            LET s == last'.map
            IN  /\ IF ~rolling /\ MasterShape # MapShape(s)
                     THEN last'.branch = "master" /\ MasterShape' = MapShape(s)
                     ELSE /\ MasterShape' = MasterShape
                          /\ PrivateShape # MapShape(s)
                               => last'.branch \in {"private", "master"}
                          /\ last'.branch = "master" => PrivateShape # MapShape(s)
                /\ PrivateShape' = MapShape(s)
                /\ ~rolling => PrivateShape' = MasterShape'
       /\ last'.op # "incomingMap" =>
            PrivateShape' = PrivateShape /\ MasterShape' = MasterShape]_vars

\* After initialization on a fixed layered costmap, a map at another
\* origin has moved the master grid and the private grid with it.
C13_Witness ==
    /\ last.op = "incomingMap"
    /\ last.branch = "master"
    /\ init_pc = "done"
    /\ ~rolling
    /\ last.map.origin_x = 1
    /\ WellFormed(last.map)
    /\ PrivateShape = MapShape(last.map)
    /\ MasterShape = MapShape(last.map)

C27_PatchReplacesRectangle ==
    [][/\ last'.op = "incomingUpdate" =>
            LET p == last'.update
            IN  /\ x_' = p.x /\ y_' = p.y
                /\ width_' = p.width /\ height_' = p.height
                /\ has_updated_data_'
       /\ (/\ last.op = "incomingUpdate"
           /\ last'.op = "updateBounds" /\ last'.applied
           /\ last'.in = NoBounds) =>
            LET p == last.update
            IN  last'.out =
                  Box2(mapToWorld2(origin_x_, resolution_, p.x),
                       mapToWorld2(origin_y_, resolution_, p.y),
                       mapToWorld2(origin_x_, resolution_, p.x + p.width),
                       mapToWorld2(origin_y_, resolution_, p.y + p.height))]_vars

\* The report after an update of the second cell of a grid of two: less
\* than the grid, which the map had left as the dirty rectangle.
C27_Witness ==
    /\ last.op = "updateBounds" /\ last.applied
    /\ last.in = NoBounds
    /\ size_x_ = 2 /\ size_y_ = 1
    /\ x_ = 1 /\ y_ = 0 /\ width_ = 1 /\ height_ = 1
    /\ last.out = Box2(mapToWorld2(origin_x_, resolution_, 1),
                       mapToWorld2(origin_y_, resolution_, 0),
                       mapToWorld2(origin_x_, resolution_, 2),
                       mapToWorld2(origin_y_, resolution_, 1))

\* C24: onInitialize does not return without a map unless the node is
\* shutting down; once a map was received it returns; and the updates are
\* subscribed to after the wait only, so that none is ingested before
\* the first map.
C24_InitializeWaitsForMap ==
    /\ [](init_pc = "done" => map_received_)
    /\ (map_received_ ~> init_pc # "wait")
    /\ [][last'.op = "incomingUpdate" =>
            (init_pc = "done" /\ map_received_)]_vars

\* onInitialize has returned after the first map, and the first update
\* has come in.
C24_Witness ==
    /\ init_pc = "done" /\ map_received_
    /\ last.op = "incomingUpdate"

\* C30 as stated: every cell (col, row) that incomingUpdate writes is a
\* cell of the private grid, col < size_x and row < size_y, also when the
\* rectangle of the update is not inside the grid.
C30_PatchWritesInsideGrid ==
    last.op = "incomingUpdate" =>
        \A x \in 0 .. (last.update.width - 1),
           y \in 0 .. (last.update.height - 1) :
            LET c == WrittenCell(last.update, x, y)
            IN  c[1] < size_x_ /\ c[2] < size_y_

\* ------------------------------------------------------------------------
\* updateCosts (lines 244-294).

\* Costmap2D::worldToMap of the private grid, on doubled world coordinates:
\* fails left of or below the origin and at or beyond the size.
worldToMap(wx2, wy2) ==
    LET mx == (wx2 - 2 * origin_x_) \div (2 * resolution_)
        my == (wy2 - 2 * origin_y_) \div (2 * resolution_)
    IN  [ok |-> /\ wx2 >= 2 * origin_x_ /\ wy2 >= 2 * origin_y_
                /\ mx < size_x_ /\ my < size_y_,
         mx |-> mx, my |-> my]

\* Lines 278-288 with the use_maximum_ test forgotten: the incoming cost
\* is always written.
MaxMerge_Overwrite(cost, old_cost) == cost

\* Lines 278-288 without the special cases: the larger cost is written.
MaxMerge_PlainMax(cost, old_cost) == Max(cost, old_cost)

\* Lines 278-288: what the rolling branch writes under use_maximum_.  The
\* first else belongs to "if (cost == LETHAL_OBSTACLE)", the second to
\* "if (track_unknown_space_)", the third to "if (old_cost == NO_INFORMATION)".
MaxMerge(cost, old_cost) ==
    IF track_unknown_space_
      THEN IF cost = LETHAL_OBSTACLE THEN cost ELSE Max(cost, old_cost)
      ELSE IF old_cost = NO_INFORMATION THEN cost ELSE Max(cost, old_cost)

\* Lines 266-289 without the test of line 273: an unknown private cell is
\* stamped like any other.
RollingCell_StampsUnknown(i, j, old_cost) ==
    LET w == worldToMap(mapToWorld2(master.origin_x, master.resolution, i),
                        mapToWorld2(master.origin_y, master.resolution, j))
    IN  IF ~w.ok THEN old_cost
        ELSE LET cost == getCost(w.mx, w.my)
             IN  IF ~use_maximum_ THEN cost
                 ELSE MaxMerge(cost, old_cost)

\* Lines 266-289: the body of the rolling loop for master cell (i, j)
\* holding old_cost; the result is what the cell holds afterwards.
RollingCell(i, j, old_cost) ==
    LET w == worldToMap(mapToWorld2(master.origin_x, master.resolution, i),
                        mapToWorld2(master.origin_y, master.resolution, j))
    IN  IF ~w.ok THEN old_cost
        ELSE LET cost == getCost(w.mx, w.my)
             IN  IF cost = NO_INFORMATION THEN old_cost
                 ELSE IF ~use_maximum_ THEN cost
                 ELSE MaxMerge(cost, old_cost)

\* The master cells of the half-open rectangle [min_i, max_i) x [min_j, max_j).
InRect(i, j, min_i, min_j, max_i, max_j) ==
    min_i <= i /\ i < max_i /\ min_j <= j /\ j < max_j

\* Lines 261-292: the rolling loops.
RollingLoop(min_i, min_j, max_i, max_j) ==
    [k \in DOMAIN master.costmap |->
        LET i == k % master.size_x
            j == k \div master.size_x
        IN  IF InRect(i, j, min_i, min_j, max_i, max_j)
              THEN RollingCell(i, j, master.costmap[k])
              ELSE master.costmap[k]]

\* CostmapLayer::updateWithTrueOverwrite: the private cell with the same
\* index replaces the master cell, NO_INFORMATION included.
updateWithTrueOverwrite(min_i, min_j, max_i, max_j) ==
    [k \in DOMAIN master.costmap |->
        IF InRect(k % master.size_x, k \div master.size_x,
                  min_i, min_j, max_i, max_j)
          THEN costmap_[k]
          ELSE master.costmap[k]]

\* CostmapLayer::updateWithMax: the larger of the private cell with the
\* same index and the master cell.
updateWithMax(min_i, min_j, max_i, max_j) ==
    [k \in DOMAIN master.costmap |->
        IF InRect(k % master.size_x, k \div master.size_x,
                  min_i, min_j, max_i, max_j)
          THEN Max(costmap_[k], master.costmap[k])
          ELSE master.costmap[k]]

\* Lines 254-257 with the test of use_maximum_ inverted.
FixedStamp_Inverted(min_i, min_j, max_i, max_j) ==
    IF use_maximum_
      THEN updateWithTrueOverwrite(min_i, min_j, max_i, max_j)
      ELSE updateWithMax(min_i, min_j, max_i, max_j)

\* Lines 254-257: the branch of a layered costmap that is not rolling.
FixedStamp(min_i, min_j, max_i, max_j) ==
    IF ~use_maximum_
      THEN updateWithTrueOverwrite(min_i, min_j, max_i, max_j)
      ELSE updateWithMax(min_i, min_j, max_i, max_j)

\* Lines 244-294.
updateCosts(min_i, min_j, max_i, max_j) ==
    /\ master' =
         IF ~enabled_ \/ ~map_received_ THEN master
         ELSE IF ~rolling
           THEN [master EXCEPT !.costmap =
                   FixedStamp(min_i, min_j, max_i, max_j)]
         ELSE [master EXCEPT !.costmap = RollingLoop(min_i, min_j, max_i, max_j)]
    /\ last' = [op |-> "updateCosts", min_i |-> min_i, min_j |-> min_j,
                max_i |-> max_i, max_j |-> max_j, before |-> master.costmap]
    /\ UNCHANGED <<config, planner, layer, size_locked, history_on, changed>>

\* LayeredCostmap::updateMap calls updateCosts with a rectangle clamped to
\* the master grid.  One call is followed from every starting state.
UpdateCosts ==
    /\ last.op = "none"
    /\ \E min_i \in 0 .. master.size_x, min_j \in 0 .. master.size_y :
         \E max_i \in min_i .. master.size_x, max_j \in min_j .. master.size_y :
            updateCosts(min_i, min_j, max_i, max_j)

\* The shapes (width, height) of the grids updateCosts is applied to.
CostShapes ==
    {s \in (1 .. MaxW) \X (1 .. MaxH) : s[1] * s[2] <= MaxCells}

\* The layer after onInitialize, with any private grid, either enabled and
\* after a report or disabled by reconfigureCB (updateBounds reports nothing
\* then and the dirty flag stays set); the master grid has any contents, the private grid's shape when the costmap
\* is not rolling (lines 148-156) and its own window when it is.
InitCosts ==
    /\ InitConfig({100}, {-1}, BOOLEAN, BOOLEAN, {TRUE}, BOOLEAN)
    /\ enabled_ \in BOOLEAN
    /\ map_received_ = TRUE
    /\ has_updated_data_ = ~enabled_
    /\ \E s \in CostShapes :
         /\ size_x_ = s[1] /\ size_y_ = s[2]
         /\ x_ = 0 /\ y_ = 0 /\ width_ = s[1] /\ height_ = s[2]
         /\ costmap_ \in [0 .. (s[1] * s[2] - 1) -> CostVals]
         /\ \E m \in CostShapes, o \in WindowOrigins :
              /\ rolling \/ (m = s /\ o = <<0, 0>>)
              /\ \E grid \in [0 .. (m[1] * m[2] - 1) -> CostVals] :
                   master = [NewMaster(m[1], m[2], 1, o[1], o[2])
                               EXCEPT !.costmap = grid]
    /\ resolution_ = 1 /\ origin_x_ = 0 /\ origin_y_ = 0
    /\ size_locked = ~rolling
    /\ extra = NoExtra
    /\ init_pc = "done"
    /\ ingest = NoIngestion
    /\ history_on = FALSE
    /\ InitPlanner
    /\ changed = {}
    /\ last = [op |-> "none"]

NextCosts == UpdateCosts

SpecCosts == InitCosts /\ [][NextCosts]_vars

\* A call of updateCosts that ran its body, and the master cells of its
\* rectangle.
Stamped == last.op = "updateCosts" /\ enabled_ /\ map_received_

StampedCells ==
    {c \in CellsOf(master.size_x, master.size_y) :
        InRect(c[1], c[2], last.min_i, last.min_j, last.max_i, last.max_j)}

MasterBefore(c) == last.before[getIndex(master.size_x, c[1], c[2])]

MasterAfter(c) == master.costmap[getIndex(master.size_x, c[1], c[2])]

\* The private cell that master cell c of a rolling window projects to.
Incoming(c) ==
    worldToMap(mapToWorld2(master.origin_x, master.resolution, c[1]),
               mapToWorld2(master.origin_y, master.resolution, c[2]))

\* C4 as stated: with use_maximum, rolling or not, no master cell holds
\* less after updateCosts than before, except a cell that was
\* NO_INFORMATION before when track_unknown_space is false.
C4_MaximumNeverDecreases ==
    (last.op = "updateCosts" /\ use_maximum_) =>
        \A c \in CellsOf(master.size_x, master.size_y) :
            \/ MasterAfter(c) >= MasterBefore(c)
            \/ (MasterBefore(c) = NO_INFORMATION /\ ~track_unknown_space_)

\* C4 amended: with use_maximum, rolling or not, no master cell holds less
\* after updateCosts than before, except a cell that was NO_INFORMATION
\* before when track_unknown_space is false or, on a rolling costmap, when
\* the static layer's value for the cell is LETHAL_OBSTACLE (which is
\* then what the cell holds).
C4_MaximumNeverDecreasesButUnknown ==
    (last.op = "updateCosts" /\ use_maximum_) =>
        \A c \in CellsOf(master.size_x, master.size_y) :
            \/ MasterAfter(c) >= MasterBefore(c)
            \/ /\ MasterBefore(c) = NO_INFORMATION
               /\ \/ ~track_unknown_space_
                  \/ /\ rolling
                     /\ Incoming(c).ok
                     /\ getCost(Incoming(c).mx, Incoming(c).my) = LETHAL_OBSTACLE
                     /\ MasterAfter(c) = LETHAL_OBSTACLE

\* A rolling call under use_maximum and track_unknown_space that wrote
\* LETHAL_OBSTACLE over NO_INFORMATION and raised another cell.
C4_Witness ==
    /\ Stamped /\ use_maximum_ /\ rolling /\ track_unknown_space_
    /\ \E c \in StampedCells :
         MasterBefore(c) = NO_INFORMATION /\ MasterAfter(c) = LETHAL_OBSTACLE
    /\ \E c \in StampedCells :
         MasterBefore(c) = FREE_SPACE /\ MasterAfter(c) = 127

\* C5: in the rolling branch with use_maximum, every master cell of the
\* rectangle that projects inside the private grid onto a value other
\* than NO_INFORMATION holds afterwards: with track_unknown_space,
\* LETHAL_OBSTACLE if the incoming value is LETHAL_OBSTACLE and otherwise
\* max(incoming, current); without it, the incoming value if the cell was
\* NO_INFORMATION and otherwise max(incoming, current).
C5_RollingMaximumTable ==
    (Stamped /\ rolling /\ use_maximum_) =>
        \A c \in StampedCells :
            LET w == Incoming(c)
                incoming == getCost(w.mx, w.my)
                current == MasterBefore(c)
            IN  (w.ok /\ incoming # NO_INFORMATION) =>
                  MasterAfter(c) =
                    IF track_unknown_space_
                      THEN IF incoming = LETHAL_OBSTACLE
                             THEN LETHAL_OBSTACLE
                             ELSE Max(incoming, current)
                      ELSE IF current = NO_INFORMATION
                             THEN incoming
                             ELSE Max(incoming, current)

\* A rolling call under use_maximum without track_unknown_space, on a
\* window shifted by one cell, that wrote a free incoming value over
\* NO_INFORMATION and kept a lethal cell over a smaller incoming value.
C5_Witness ==
    /\ Stamped /\ rolling /\ use_maximum_ /\ ~track_unknown_space_
    /\ master.origin_x = 1
    /\ \E c \in StampedCells :
         /\ Incoming(c).ok
         /\ getCost(Incoming(c).mx, Incoming(c).my) = FREE_SPACE
         /\ MasterBefore(c) = NO_INFORMATION
         /\ MasterAfter(c) = FREE_SPACE

\* C12: on a layered costmap that is not rolling, after updateCosts every
\* master cell of the rectangle holds, without use_maximum, the private
\* cell of the same index, NO_INFORMATION included, and with use_maximum
\* the larger of that private cell and what the master cell held.
C12_FixedStampOverwritesOrMerges ==
    (Stamped /\ ~rolling) =>
        \A c \in StampedCells :
            LET index == getIndex(master.size_x, c[1], c[2])
            IN  MasterAfter(c) =
                  IF ~use_maximum_ THEN costmap_[index]
                  ELSE Max(costmap_[index], MasterBefore(c))

\* A true overwrite of the whole of a two-cell master grid that wrote
\* NO_INFORMATION over a lethal cell and free space over NO_INFORMATION.
C12_Witness ==
    /\ Stamped /\ ~rolling /\ ~use_maximum_
    /\ Cardinality(StampedCells) = 2
    /\ \E c \in StampedCells :
         MasterBefore(c) = LETHAL_OBSTACLE /\ MasterAfter(c) = NO_INFORMATION
    /\ \E c \in StampedCells :
         MasterBefore(c) = NO_INFORMATION /\ MasterAfter(c) = FREE_SPACE

\* C28: on a rolling costmap updateCosts changes a master cell (i, j) only
\* if it is in the rectangle [min_i, max_i) x [min_j, max_j), its world
\* position is inside the private grid and the private cell there is not
\* NO_INFORMATION; every other master cell is as before, and without
\* use_maximum every changed cell holds that private cell.
C28_RollingStampFrame ==
    (last.op = "updateCosts" /\ rolling) =>
        \A c \in CellsOf(master.size_x, master.size_y) :
            MasterAfter(c) # MasterBefore(c) =>
                /\ c \in StampedCells
                /\ Incoming(c).ok
                /\ getCost(Incoming(c).mx, Incoming(c).my) # NO_INFORMATION
                /\ ~use_maximum_ =>
                      MasterAfter(c) = getCost(Incoming(c).mx, Incoming(c).my)

\* A rolling stamp over two master cells: one is overwritten by its
\* private cell, the other projects to an unknown private cell and keeps
\* its value.
C28_Witness ==
    /\ Stamped /\ rolling /\ ~use_maximum_
    /\ \E c \in StampedCells :
         /\ MasterAfter(c) # MasterBefore(c)
         /\ MasterAfter(c) = getCost(Incoming(c).mx, Incoming(c).my)
    /\ \E c \in StampedCells :
         /\ Incoming(c).ok
         /\ getCost(Incoming(c).mx, Incoming(c).my) = NO_INFORMATION
         /\ MasterAfter(c) = MasterBefore(c)
         /\ MasterAfter(c) # NO_INFORMATION

\* ------------------------------------------------------------------------
\* The local planner: its life from the constructor on.

InitLocalPlanner ==
    /\ InitConfig({100}, {-1}, {FALSE}, {FALSE}, {TRUE}, {TRUE})
    /\ InitLayer
    /\ history_on = FALSE
    /\ InitPlanner

NextPlanner ==
    \/ Initialize
    \/ PlannerReconfigure
    \/ ComputeVelocityCommands
    \/ FindBestPath

SpecPlanner == InitLocalPlanner /\ [][NextPlanner]_vars

\* The same life with the reconfigure requests followed call by call, in
\* the thread of the dynamic_reconfigure server, beside the cycles.
NextThreads ==
    \/ Initialize
    \/ ReconfigureLimits
    \/ ReconfigureWeights
    \/ CycleOnPlan
    \/ FindBestPath

SpecThreads == InitLocalPlanner /\ [][NextThreads]_vars

\* The calls of the nav_core interface in any order, initialize among
\* them.
NextCalls ==
    \/ Initialize
    \/ PlannerReconfigure
    \/ SetPlan
    \/ IsGoalReached
    \/ CycleOnPlan
    \/ FindBestPath

SpecCalls == InitLocalPlanner /\ [][NextCalls]_vars

\* ------------------------------------------------------------------------
\* Properties of the controller state.

\* The last step was the weight application of a cycle.
WeightsApplied == last.op = "updatePlanAndLocalCosts"

\* C14: the state chosen in a cycle is Arrive exactly when goal_distance <
\* switch_goal_distance, whatever the yaw error and the previous state;
\* otherwise it is Align exactly when |yaw_error| > switch_yaw_error, or
\* the previous state was Align and |yaw_error| > switch_yaw_error / 2;
\* otherwise it is Default.
C14_StateChosen ==
    WeightsApplied =>
        LET arrive == last.goal_distance < dp.switch_goal_distance_
            align  == \/ Abs(last.yaw_error) > dp.switch_yaw_error_
                      \/ /\ last.prev = "Align"
                         /\ 2 * Abs(last.yaw_error) > dp.switch_yaw_error_
        IN  /\ (last.state = "Arrive") <=> arrive
            /\ ~arrive => ((last.state = "Align") <=> align)
            /\ (~arrive /\ ~align) => last.state = "Default"

\* Align is kept by the memory alone: the yaw error is between half the
\* switch and the switch.
C14_Witness ==
    /\ WeightsApplied
    /\ last.goal_distance >= dp.switch_goal_distance_
    /\ last.prev = "Align" /\ last.state = "Align"
    /\ Abs(last.yaw_error) <= dp.switch_yaw_error_

\* A cycle away from the goal has applied its weights in this step.
CycleAwayFromGoal ==
    /\ last'.op = "updatePlanAndLocalCosts"
    /\ last'.goal_distance >= dp.switch_goal_distance_

\* C15: the hysteresis of Align over consecutive cycles away from the
\* goal.  From Default, a yaw error just below the switch keeps Default
\* and one just above it enters Align; from Align, a yaw error of 0.6
\* times the switch stays Align and one of 0.4 times the switch returns
\* to Default.
C15_AlignHysteresis ==
    [][CycleAwayFromGoal =>
         LET yaw == Abs(last'.yaw_error)
             s   == dp.switch_yaw_error_
         IN  /\ (prev_state = "Default" /\ yaw < s) => prev_state' = "Default"
             /\ (prev_state = "Default" /\ yaw > s) => prev_state' = "Align"
             /\ (prev_state = "Align" /\ 10 * yaw = 6 * s)
                    => prev_state' = "Align"
             /\ (prev_state = "Align" /\ 10 * yaw = 4 * s)
                    => prev_state' = "Default"]_vars

\* Align has been left at 0.4 times the switch.
C15_Witness ==
    /\ WeightsApplied
    /\ last.goal_distance >= dp.switch_goal_distance_
    /\ last.prev = "Align" /\ last.state = "Default"
    /\ prev_state = "Default"
    /\ 10 * Abs(last.yaw_error) = 4 * dp.switch_yaw_error_

\* The selection as a function of the yaw error, the goal distance and
\* whether the cycle before returned Align, under the switches in force.
SelectionOf(yaw_error, goal_distance, after_align) ==
    IF goal_distance < dp.switch_goal_distance_ THEN "Arrive"
    ELSE IF Abs(yaw_error) > dp.switch_yaw_error_ THEN "Align"
    ELSE IF after_align /\ 2 * Abs(yaw_error) > dp.switch_yaw_error_
      THEN "Align"
    ELSE "Default"

\* C29: the state returned in a cycle is a function of that cycle's yaw
\* error and goal distance and of whether the cycle before it returned
\* Align, and of nothing else (not of plan_distance or
\* switch_plan_distance); the remembered state is always the state last
\* returned; so a cycle that follows Arrive, away from the goal with a
\* yaw error between half the switch and the switch, returns Default
\* even if Align came before Arrive.
C29_SelectionMemoryless ==
    [][last'.op = "updatePlanAndLocalCosts" =>
         /\ last'.state = SelectionOf(last'.yaw_error, last'.goal_distance,
                                      prev_state = "Align")
         /\ prev_state' = last'.state
         /\ (/\ prev_state = "Arrive"
             /\ last'.goal_distance >= dp.switch_goal_distance_
             /\ 2 * Abs(last'.yaw_error) > dp.switch_yaw_error_
             /\ Abs(last'.yaw_error) <= dp.switch_yaw_error_)
                => last'.state = "Default"]_vars

\* After Arrive, a cycle far from the plan with a yaw error between half
\* the switch and the switch has returned Default.
C29_Witness ==
    /\ WeightsApplied
    /\ last.prev = "Arrive" /\ last.state = "Default"
    /\ prev_state = "Default"
    /\ last.goal_distance >= dp.switch_goal_distance_
    /\ last.plan_distance > dp.switch_plan_distance_
    /\ 2 * Abs(last.yaw_error) > dp.switch_yaw_error_
    /\ Abs(last.yaw_error) <= dp.switch_yaw_error_

\* ------------------------------------------------------------------------
\* Properties of the weights and of the command.

\* C16 as stated: after the weight application of a cycle the scales of
\* the five cost functions (alignment, plan, goal, cmd_vel, obstacle) and
\* the six cmd_vel coefficients are those of the row of the cycle's state
\* in the latest accepted configuration.
C16_WeightsOfState ==
    WeightsApplied =>
        /\ \A c \in Critics : critics.scale[c] = dp.scale[last.state][c]
        /\ \A c \in Coefficients :
              critics.coefficients[c] = dp.cmd[last.state][c]

\* C17: after a cycle the desired orientation of the alignment cost is
\* the yaw of the first pose of the local plan when the cycle's state is
\* Align or Default, and the yaw of its last pose when the state is
\* Arrive; the rest of the cycle leaves it alone.
C17_DesiredOrientation ==
    [][/\ last'.op = "updatePlanAndLocalCosts" =>
            LET path == last'.local_plan
            IN  critics'.desired_orientation =
                    IF last'.state = "Arrive" THEN path[Len(path)]
                                              ELSE path[1]
       /\ cycle.pc = "sample" =>
            critics'.desired_orientation = critics.desired_orientation]_vars

\* A cycle in Arrive along a plan that turns: the desired orientation is
\* the yaw of the last pose, not of the first.
C17_Witness ==
    /\ WeightsApplied
    /\ last.state = "Arrive"
    /\ last.local_plan = <<30, 60>>
    /\ critics.desired_orientation = 60

\* A cycle has run the sampler and ended.
Sampled == last.op = "computeVelocityCommands" /\ last.sampled

\* C18: at the end of a cycle that reached the sampler, a best trajectory
\* of cost >= 0 gives its velocities as the command and the result true;
\* one of negative cost gives the command (0, 0, 0) and the result false.
C18_CommandOfBestTrajectory ==
    Sampled =>
        IF last.traj.cost_ >= 0
          THEN /\ cmd_vel = [x |-> last.traj.xv_, y |-> last.traj.yv_,
                             z |-> last.traj.thetav_]
               /\ last.returned
          ELSE /\ cmd_vel = [x |-> 0, y |-> 0, z |-> 0]
               /\ ~last.returned

\* No legal trajectory: the sampler's best has velocities, the command is
\* at rest.
C18_Witness ==
    /\ Sampled
    /\ last.traj.cost_ < 0 /\ last.traj.xv_ # 0
    /\ cmd_vel = [x |-> 0, y |-> 0, z |-> 0]
    /\ ~last.returned

\* The last step belongs to a cycle.
CycleStep == last.op \in {"computeVelocityCommands", "updatePlanAndLocalCosts"}

\* C19 as stated: a cycle without a robot pose ends at its first step:
\* computeVelocityCommands returns false, the local plan is neither
\* requested nor published, no state is selected, no cost function is
\* touched, the sampler does not run and no command is written.
C19_PoseUnavailableAborts ==
    (CycleStep /\ ~last.pose_ok) =>
        /\ last.op = "computeVelocityCommands"
        /\ ~last.returned
        /\ ~last.requested_plan
        /\ ~last.published_plan
        /\ ~last.sampled

\* C20 as stated: when the local plan is not obtained or is empty,
\* computeVelocityCommands returns false, publishes nothing, and leaves
\* the command, the controller state and the cost functions as they
\* were, without sampling; and a cycle with a pose and a plan of at least
\* one pose goes on to the weight application.
C20_PlanUnavailableAborts ==
    [][(cycle.pc = "idle" /\ CycleStep') =>
          LET usable == last'.plan_ok /\ last'.local_plan # << >>
          IN  /\ ~usable =>
                    /\ last'.op = "computeVelocityCommands"
                    /\ ~last'.returned
                    /\ ~last'.published_plan /\ ~last'.sampled
                    /\ UNCHANGED <<cmd_vel, prev_state, critics>>
              /\ (usable /\ last'.pose_ok) =>
                    last'.op = "updatePlanAndLocalCosts"]_vars

\* ------------------------------------------------------------------------
\* Properties of the nav_core interface.

\* C25 as stated: isGoalReached returns true exactly when the robot pose
\* and the goal are available, xy_to_goal <= xy_goal_tolerance,
\* |angle_to_goal| <= yaw_goal_tolerance and the robot is stopped under
\* rot_stopped_vel and trans_stopped_vel; without the pose or the goal
\* it returns false.
C25_GoalReachedIff ==
    (last.op = "isGoalReached" /\ initialized_) =>
        (last.returned <=>
            /\ last.pose_ok /\ last.goal_ok
            /\ last.xy_to_goal <= limits.xy_goal_tolerance
            /\ Abs(last.angle_to_goal) <= limits.yaw_goal_tolerance
            /\ stopped(last.robot_vel, limits.rot_stopped_vel,
                       limits.trans_stopped_vel))

\* C26 as stated: before initialize, setPlan, isGoalReached and
\* computeVelocityCommands return false, do not use the planner that was
\* not initialized, publish nothing and change nothing.
C26_NotInitializedSignalled ==
    [][(~initialized_
          /\ last'.op \in {"setPlan", "isGoalReached",
                           "computeVelocityCommands"}) =>
         /\ ~last'.returned
         /\ last'.op = "setPlan" => ~last'.stored
         /\ last'.op = "isGoalReached" => ~last'.read_limits
         /\ last'.op = "computeVelocityCommands" =>
               /\ ~last'.requested_plan
               /\ ~last'.published_plan /\ ~last'.sampled
         /\ UNCHANGED planner]_vars

\* ------------------------------------------------------------------------
\* Properties of the threads.

\* C21 as stated: no reconfigure takes effect between the weight
\* application of a cycle and the end of its sampling: the switches and
\* weights that updatePlanAndLocalCosts read and the sampling parameters
\* that findBestPath used are those of one configuration.
C21_NoReconfigureMidCycle ==
    Sampled =>
        \E c \in Configs :
            /\ last.read.switch_yaw_error_ = c.switch_yaw_error
            /\ last.read.switch_goal_distance_ = c.switch_goal_distance
            /\ last.read.scale = c.scale
            /\ last.read.cmd = c.cmd
            /\ last.used.vsamples_ = c.vx_samples

\* C22 as stated: a reconfigure request replaces limits and weights as
\* one: the limits and the sampling parameters and weights that the
\* sampling of a cycle uses belong to the same request.
C22_LimitsAndWeightsOfOneRequest ==
    Sampled =>
        \E c \in Configs :
            /\ last.limits = LimitsOf(c)
            /\ last.used = DWAPlanner_reconfigure(c)

\* ------------------------------------------------------------------------
\* interpretValue on its own: every configuration of the interpretation,
\* and every occupancy value a map message can carry (int8).

InitInterpret ==
    /\ InitConfig(LethalParams, UnknownParams, {FALSE}, {FALSE}, BOOLEAN, BOOLEAN)
    /\ InitLayer
    /\ history_on = FALSE
    /\ InitPlanner

\* Lines 172-173: the int8 read from the message becomes an unsigned char
\* and is interpreted.  The function reads the configuration only, so one
\* call per behaviour covers it.
InterpretValue ==
    \E v \in SignedOctets :
        /\ last.op = "none"
        /\ last' = [op |-> "interpretValue", value |-> v,
                    cost |-> interpretValue(U8(v))]
        /\ UNCHANGED <<config, planner, layer, master, size_locked, history_on, changed>>

NextInterpret == InterpretValue

SpecInterpret == InitInterpret /\ [][NextInterpret]_vars

Interpreted == last.op = "interpretValue"

\* C6: interpret(v) is NO_INFO exactly when track_unknown_space is set and
\* v is unknown_cost_value; when track_unknown_space is not set and v is
\* unknown_cost_value it is FREE.
C6_UnknownInterpretation ==
    Interpreted =>
        /\ (last.cost = NO_INFORMATION) <=>
               (track_unknown_space_ /\ last.value = params.unknown_cost_value)
        /\ (~track_unknown_space_ /\ last.value = params.unknown_cost_value)
               => last.cost = FREE_SPACE

C6_Witness ==
    /\ Interpreted
    /\ track_unknown_space_
    /\ last.value = -1
    /\ params.unknown_cost_value = -1
    /\ last.cost = NO_INFORMATION

\* C7 as stated: interpret(v) is LETHAL exactly when the signed value v is
\* at least lethal_threshold and is not unknown_cost_value.
C7_LethalIffSignedAtLeastThreshold ==
    Interpreted =>
        ((last.cost = LETHAL_OBSTACLE) <=>
            (last.value >= lethal_threshold_
                /\ last.value # params.unknown_cost_value))

\* C7, amended: interpret(v) is LETHAL exactly when v, taken as an unsigned
\* octet (v mod 256), is at least lethal_threshold and v is not
\* unknown_cost_value; so every negative v other than unknown_cost_value
\* is LETHAL.
C7_LethalIffUnsignedAtLeastThreshold ==
    Interpreted =>
        ((last.cost = LETHAL_OBSTACLE) <=>
            (/\ IF last.value < 0 THEN last.value + 256 >= lethal_threshold_
                                  ELSE last.value >= lethal_threshold_
             /\ last.value # params.unknown_cost_value))

C7_Witness ==
    /\ Interpreted
    /\ last.value < 0
    /\ last.value # params.unknown_cost_value
    /\ lethal_threshold_ = 100
    /\ last.cost = LETHAL_OBSTACLE

\* round(v * 254 / t) for v >= 0 and t > 0, halves rounded up.
RoundScaled(v, t) == (2 * v * LETHAL_OBSTACLE + t) \div (2 * t)

\* C8 as stated: without trinary_costmap, for v other than
\* unknown_cost_value and below lethal_threshold, interpret(v) is
\* round(v / lethal_threshold * 254) clamped to [0, 253] (a negative v
\* rounds to a negative number and clamps to 0).
C8_ScaledIsRounded ==
    (Interpreted /\ ~trinary_costmap_ /\ lethal_threshold_ > 0
        /\ last.value # params.unknown_cost_value
        /\ last.value < lethal_threshold_)
    => last.cost = IF last.value < 0 THEN 0
                   ELSE Min(RoundScaled(last.value, lethal_threshold_),
                            LETHAL_OBSTACLE - 1)

\* C8, amended: without trinary_costmap, for v other than
\* unknown_cost_value with 0 <= v < lethal_threshold, interpret(v) is
\* v * 254 / lethal_threshold truncated (the largest integer c with
\* c * lethal_threshold <= v * 254), which lies in [0, 253].
C8_ScaledIsTruncated ==
    (Interpreted /\ ~trinary_costmap_
        /\ last.value # params.unknown_cost_value
        /\ 0 <= last.value /\ last.value < lethal_threshold_)
    => /\ last.cost \in 0 .. (LETHAL_OBSTACLE - 1)
       /\ last.cost * lethal_threshold_ <= last.value * LETHAL_OBSTACLE
       /\ last.value * LETHAL_OBSTACLE < (last.cost + 1) * lethal_threshold_

\* lethal_threshold 100 and v = 1: 2.54 is truncated to 2.
C8_Witness ==
    /\ Interpreted
    /\ ~trinary_costmap_
    /\ lethal_threshold_ = 100
    /\ last.value = 1
    /\ last.cost = 2

\* C9 as stated: without trinary_costmap, interpret is non-decreasing on
\* the values strictly between 0 and lethal_threshold, whatever
\* unknown_cost_value is.
C9_MonotoneBelowThreshold ==
    (Interpreted /\ ~trinary_costmap_
        /\ 0 < last.value /\ last.value < lethal_threshold_)
    => \A v1 \in 1 .. last.value : interpretValue(U8(v1)) <= last.cost

\* C9, amended: without trinary_costmap, interpret is non-decreasing on
\* the values strictly between 0 and lethal_threshold other than
\* unknown_cost_value.
C9_MonotoneBelowThresholdButUnknown ==
    (Interpreted /\ ~trinary_costmap_
        /\ 0 < last.value /\ last.value < lethal_threshold_
        /\ last.value # params.unknown_cost_value)
    => \A v1 \in (1 .. last.value) \ {params.unknown_cost_value} :
           interpretValue(U8(v1)) <= last.cost

\* unknown_cost_value lies inside the interval, below the value interpreted.
C9_Witness ==
    /\ Interpreted
    /\ ~trinary_costmap_
    /\ params.unknown_cost_value = 30
    /\ lethal_threshold_ = 100
    /\ last.value = 60
    /\ last.cost = 152

\* ------------------------------------------------------------------------
\* The map callback and the update cycle as two threads.  incomingMap runs
\* in the thread that serves the subscription, updateBounds and updateCosts
\* in the thread of the layered costmap's update loop.  static_layer.cpp
\* takes no lock in any of them, so the steps of incomingMap (the resize of
\* lines 148-163, each setCost of the loop of lines 168-176, the rectangle
\* and the flags of lines 177-181) interleave with whole calls of the other
\* two.  While onInitialize waits, the callback runs inside its spinOnce.

\* The well-formed maps of one row at the first origin.
RaceMaps ==
    {m \in [width : 1 .. MaxW, height : {1}, resolution : {1},
            origin_x : {0}, origin_y : {0},
            data : UNION {[1 .. n -> SnapVals] : n \in 1 .. MaxW}] :
        WellFormed(m)}

\* Lines 142-165: the resize and index = 0.  before is history: the private
\* buffer as the call found it.
incomingMapBegin(new_map) ==
    LET branch == ResizeBranch(new_map)
        shape == ShapeAfterResize(new_map)
    IN  /\ ingest = NoIngestion
        /\ init_pc = "wait" => ~map_received_
        /\ init_pc # "shutdown"
        /\ IF branch = "master"
             THEN /\ master' = NewMaster(new_map.width, new_map.height,
                                         new_map.resolution, new_map.origin_x,
                                         new_map.origin_y)
                  /\ size_locked' = TRUE
             ELSE UNCHANGED <<master, size_locked>>
        /\ size_x_' = shape.size_x
        /\ size_y_' = shape.size_y
        /\ resolution_' = shape.resolution
        /\ origin_x_' = shape.origin_x
        /\ origin_y_' = shape.origin_y
        /\ costmap_' = IF branch = "none" THEN costmap_
                       ELSE NewGrid(shape.size_x, shape.size_y, PrivateDefault)
        /\ ingest' = [pc |-> "loop", map |-> new_map, index |-> 0,
                      before |-> costmap_]
        /\ last' = [op |-> "incomingMapBegin", map |-> new_map,
                    branch |-> branch]
        /\ UNCHANGED <<config, planner, enabled_, map_received_,
                       has_updated_data_, x_, y_, width_, height_, extra,
                       init_pc, history_on, changed>>

IncomingMapBegin == \E new_map \in RaceMaps : incomingMapBegin(new_map)

\* Lines 168-176: one iteration of the loop.
IncomingMapCell ==
    /\ ingest.pc = "loop"
    /\ ingest.index < ingest.map.width * ingest.map.height
    /\ costmap_' =
         [costmap_ EXCEPT ![getIndex(size_x_, ingest.index % ingest.map.width,
                                     ingest.index \div ingest.map.width)] =
              interpretValue(U8(ingest.map.data[ingest.index + 1]))]
    /\ ingest' = [ingest EXCEPT !.index = ingest.index + 1]
    /\ last' = [op |-> "incomingMapCell", index |-> ingest.index]
    /\ UNCHANGED <<config, planner, enabled_, map_received_,
                   has_updated_data_, x_, y_, width_, height_, size_x_,
                   size_y_, resolution_, origin_x_, origin_y_, extra, init_pc,
                   master, size_locked, history_on, changed>>

\* Lines 177-181: the dirty rectangle and the flags, after the loop.
IncomingMapEnd ==
    /\ ingest.pc = "loop"
    /\ ingest.index = ingest.map.width * ingest.map.height
    /\ x_' = 0 /\ y_' = 0
    /\ width_' = size_x_
    /\ height_' = size_y_
    /\ map_received_' = TRUE
    /\ has_updated_data_' = TRUE
    /\ ingest' = NoIngestion
    /\ last' = [op |-> "incomingMapEnd", map |-> ingest.map]
    /\ UNCHANGED <<config, planner, enabled_, size_x_, size_y_, resolution_,
                   origin_x_, origin_y_, costmap_, extra, init_pc, master,
                   size_locked, history_on, changed>>

\* onInitialize leaves its loop between two calls of spinOnce, so between
\* two callbacks.
InitDoneBetweenCallbacks == ingest = NoIngestion /\ InitDone

\* updateCosts over the whole master grid, once the layer is initialized.
UpdateCostsWhole ==
    /\ init_pc = "done"
    /\ updateCosts(0, 0, master.size_x, master.size_y)

InitRace ==
    /\ InitConfig({100}, {-1}, {FALSE}, {FALSE}, {TRUE}, {TRUE})
    /\ InitLayer
    /\ history_on = FALSE
    /\ InitPlanner

NextRace ==
    \/ IncomingMapBegin
    \/ IncomingMapCell
    \/ IncomingMapEnd
    \/ InitDoneBetweenCallbacks
    \/ UpdateBounds
    \/ UpdateCostsWhole

SpecRace == InitRace /\ [][NextRace]_vars

\* The private buffer the call of incomingMap under way leaves.
GridAfterIngestion ==
    MapLoop(ingest.map, costmap_, size_x_, ingest.map.data)

\* The dirty rectangle lies inside the private grid.
RectangleInsideGrid == x_ + width_ <= size_x_ /\ y_ + height_ <= size_y_

\* C23: an updateCosts that reads the private grid while incomingMap is
\* under way finds the buffer as it was before the call or as the call
\* leaves it, never a mix of the two, and an updateBounds that reports the
\* dirty rectangle finds a rectangle that lies inside the private grid.
C23_IngestionAtomic ==
    [][/\ (last'.op = "updateCosts" /\ enabled_ /\ map_received_
              /\ ingest.pc = "loop")
          => costmap_ \in {ingest.before, GridAfterIngestion}
       /\ (last'.op = "updateBounds" /\ last'.applied)
          => RectangleInsideGrid]_vars

\* ------------------------------------------------------------------------
\* The layer over its life: enabled and disabled by reconfigureCB, and reset.
\* reset (lines 214-218) calls deactivate and activate, and activate calls
\* onInitialize again: map_received_ and has_updated_data_ are cleared
\* (lines 83-84) and the caller waits for a map.  The update loop of the
\* layered costmap is running by then, so updateBounds and updateCosts are
\* called during that wait as well.

\* reset, up to the wait loop of onInitialize.
Reset ==
    /\ init_pc = "done"
    /\ init_pc' = "rewait"
    /\ map_received_' = FALSE
    /\ has_updated_data_' = FALSE
    /\ last' = [op |-> "reset"]
    /\ UNCHANGED <<config, planner, ingest, enabled_, x_, y_, width_, height_,
                   size_x_, size_y_, resolution_, origin_x_, origin_y_,
                   costmap_, extra, master, size_locked, history_on, changed>>

\* reset, from the end of the wait loop: lines 94-109 as in InitDone.
ResetDone ==
    \E config_enabled \in BOOLEAN, ok \in BOOLEAN :
        /\ init_pc = "rewait"
        /\ WaitEnds(ok)
        /\ init_pc' = IF ok THEN "done" ELSE "shutdown"
        /\ reconfigureCB(config_enabled)
        /\ last' = [op |-> "onInitialize", enabled |-> config_enabled,
                    ok |-> ok]
        /\ UNCHANGED <<config, planner, ingest, map_received_, size_x_, size_y_,
                       resolution_, origin_x_, origin_y_, costmap_, extra,
                       master, size_locked, history_on, changed>>

\* incomingMap as one step, with a well-formed map of one row.
IncomingMapWhole ==
    \E new_map \in RaceMaps :
        incomingMap(new_map, [k \in 1 .. Len(new_map.data) |-> new_map.data[k]])

\* updateCosts over the whole master grid, by the update loop.
UpdateCostsInLoop ==
    /\ init_pc \in {"done", "rewait"}
    /\ updateCosts(0, 0, master.size_x, master.size_y)

NextLife ==
    \/ IncomingMapWhole
    \/ InitDone
    \/ ReconfigureCB
    \/ Reset
    \/ ResetDone
    \/ UpdateBounds
    \/ UpdateCostsInLoop

SpecLife == InitRace /\ [][NextLife]_vars

\* C31: a reconfigureCB that changes enabled_ sets the dirty rectangle to
\* the whole private grid and sets has_updated_data_; while the layer is
\* disabled or has received no map, updateBounds hands back the bounds it
\* was given and leaves has_updated_data_ as it is, and updateCosts leaves
\* every cell of the master grid as it is.
C31_DisabledLayerIsInert ==
    [][/\ (last'.op \in {"reconfigureCB", "onInitialize"} /\ enabled_' # enabled_)
          => /\ x_' = 0 /\ y_' = 0
             /\ width_' = size_x_' /\ height_' = size_y_'
             /\ has_updated_data_'
       /\ (last'.op = "updateBounds" /\ (~enabled_ \/ ~map_received_))
          => /\ last'.out = last'.in
             /\ has_updated_data_' = has_updated_data_
       /\ (last'.op = "updateCosts" /\ (~enabled_ \/ ~map_received_))
          => master' = master]_vars

\* updateCosts has run on the enabled layer while reset waits for a map,
\* with the cells of the last map in the private grid and the master grid
\* still blank.
C31_Witness ==
    /\ last.op = "updateCosts"
    /\ init_pc = "rewait"
    /\ enabled_
    /\ ~map_received_
    /\ size_x_ = MaxW
    /\ \A k \in DOMAIN costmap_ : costmap_[k] = LETHAL_OBSTACLE
    /\ \A k \in DOMAIN master.costmap : master.costmap[k] = FREE_SPACE

\* ------------------------------------------------------------------------
\* The default configuration of the local planner.

\* The stored default as a restore applies it.
RestoredDefault == [default_config_ EXCEPT !.restore_defaults = FALSE]

\* C32: the first call of reconfigureCB stores its configuration in
\* default_config_ and no later step changes default_config_; a later call
\* with restore_defaults set applies the stored default with
\* restore_defaults cleared, to the limits and to the planner, whatever
\* else it requests.
C32_DefaultsKeptAndRestored ==
    [][/\ (last'.op = "reconfigureCB" /\ ~setup_)
          => default_config_' = last'.request
       /\ setup_ => default_config_' = default_config_
       /\ (last'.op = "reconfigureCB" /\ setup_
              /\ last'.request.restore_defaults)
          => /\ last'.applied = RestoredDefault
             /\ ~last'.applied.restore_defaults
             /\ limits' = LimitsOf(RestoredDefault)
             /\ dp' = DWAPlanner_reconfigure(RestoredDefault)]_vars

\* A request for another configuration with restore_defaults set has put
\* the first configuration back.
C32_Witness ==
    /\ last.op = "reconfigureCB"
    /\ setup_
    /\ last.request.restore_defaults
    /\ last.request.switch_yaw_error # default_config_.switch_yaw_error
    /\ dp.switch_yaw_error_ = default_config_.switch_yaw_error
    /\ limits.max_trans_vel = default_config_.max_trans_vel
    /\ ~last.applied.restore_defaults

====
